---- MODULE Spec2Model ----
(***************************************************************************)
(* Model of _scripts/import_books_from_csv.py: the CSV-to-document import  *)
(* run (main / write_book) and the field normalizers it calls              *)
(* (parse_year, find_isbn, make_slug, find_cover, detect_category).        *)
(*                                                                         *)
(* Python str values are TLA+ strings; characters are strings of length 1. *)
(* The Python value None, a key missing from the row dict, and a raised    *)
(* exception are the reserved strings below, none of which is a value a    *)
(* CSV cell of the model holds.                                            *)
(***************************************************************************)
EXTENDS Integers, Sequences, FiniteSets, TLC

VARIABLES
  pc,            \* control position of the program / of the call under check
  arg,           \* argument of the function under check (a value or a row)
  ret,           \* value returned by the function under check
  env,           \* outcomes drawn from the environment for the current call
  input_exists,  \* whether the input path exists (main, line 487)
  api_key,       \* whether OPENAI_API_KEY is configured (line 34)
  rows_read,     \* rows the reader has yielded so far, in input order
  cur,           \* the row being processed by the loop body
  written,       \* the completed write_book calls, in order: the row, the path,
                 \* the text written, and what the environment answered
  count,         \* main's success counter (line 492)
  stdout,        \* lines printed so far
  books,         \* files under BOOKS_DIR: path -> document
  books_dir,     \* whether BOOKS_DIR has been created
  covers,        \* files under BOOK_COVERS_DIR: file name -> source path
  covers_dir,    \* whether BOOK_COVERS_DIR has been created
  exit_status,   \* "" while running, else how the process ended
  ai_calls       \* number of classifier requests sent during the current row

vars == <<pc, arg, ret, env, input_exists, api_key, rows_read, cur, written,
          count, stdout, books, books_dir, covers, covers_dir, exit_status,
          ai_calls>>

runvars == <<input_exists, rows_read, cur, written, count, stdout, books,
             books_dir, covers, covers_dir, exit_status>>

----------------------------------------------------------------------------
(* Python values that are not strings *)

None == "<None>"
Absent == "<absent>"
AttributeError == "<AttributeError>"
ValueError == "<ValueError>"

Truthy(v) == v # None /\ v # Absent /\ v # ""

\* row.get(key)
Get(row, key) == IF row[key] = Absent THEN None ELSE row[key]

\* row.get(key, default)
GetDefault(row, key, default) == IF row[key] = Absent THEN default ELSE row[key]

\* value or default
Or(value, default) == IF Truthy(value) THEN value ELSE default

----------------------------------------------------------------------------
(* str helpers *)

Char(s, i) == SubSeq(s, i, i)

Chars(s) == {Char(s, i) : i \in 1..Len(s)}

Digits == Chars("0123456789")

UpperAlpha == "ABCDEFGHIJKLMNOPQRSTUVWXYZ"

LowerAlpha == "abcdefghijklmnopqrstuvwxyz"

Whitespace == {" ", "\n", "\t", "\r"}

LowerChar(c) ==
  IF c \in Chars(UpperAlpha)
  THEN Char(LowerAlpha, CHOOSE i \in 1..Len(UpperAlpha) : Char(UpperAlpha, i) = c)
  ELSE c

RECURSIVE lower(_)
lower(s) == IF s = "" THEN "" ELSE LowerChar(Char(s, 1)) \o lower(Tail(s))

RECURSIVE LStrip(_, _)
LStrip(s, set) ==
  IF s # "" /\ Char(s, 1) \in set THEN LStrip(Tail(s), set) ELSE s

RECURSIVE RStrip(_, _)
RStrip(s, set) ==
  IF s # "" /\ Char(s, Len(s)) \in set
  THEN RStrip(SubSeq(s, 1, Len(s) - 1), set) ELSE s

\* str.strip() and str.strip(chars)
strip(s) == LStrip(RStrip(s, Whitespace), Whitespace)

StripChars(s, set) == LStrip(RStrip(s, set), set)

\* s[:n]
Take(s, n) == SubSeq(s, 1, IF Len(s) < n THEN Len(s) ELSE n)

\* s[i:] with i counted from 1
Drop(s, i) == SubSeq(s, i, Len(s))

StartsWithAt(s, i, p) ==
  i + Len(p) - 1 <= Len(s) /\ SubSeq(s, i, i + Len(p) - 1) = p

\* sub in s
Contains(s, sub) == \E i \in 1..(Len(s) + 1) : StartsWithAt(s, i, sub)

\* s.find(c) counted from 1, 0 when absent
Find(s, set) ==
  IF \E i \in 1..Len(s) : Char(s, i) \in set
  THEN CHOOSE i \in 1..Len(s) :
         Char(s, i) \in set /\ \A j \in 1..(i - 1) : Char(s, j) \notin set
  ELSE 0

\* re.sub(r"[^...]", "", s): keep the characters of the class
RECURSIVE Keep(_, _)
Keep(s, set) ==
  IF s = "" THEN ""
  ELSE (IF Char(s, 1) \in set THEN Char(s, 1) ELSE "") \o Keep(Tail(s), set)

\* s.replace(c, "")
Remove(s, c) == Keep(s, Chars(s) \ {c})

DigitVal(c) == CHOOSE n \in 0..9 : Char("0123456789", n + 1) = c

\* int(s) for a string of decimal digits, a leading space allowed
RECURSIVE StrToInt(_)
StrToInt(s) ==
  IF s = "" THEN 0
  ELSE IF Char(s, Len(s)) \notin Digits THEN StrToInt(SubSeq(s, 1, Len(s) - 1))
  ELSE 10 * StrToInt(SubSeq(s, 1, Len(s) - 1)) + DigitVal(Char(s, Len(s)))

\* str(n) for n >= 0
RECURSIVE IntToStr(_)
IntToStr(n) ==
  IF n < 10 THEN Char("0123456789", n + 1)
  ELSE IntToStr(n \div 10) \o Char("0123456789", (n % 10) + 1)

\* s.split(sep): the pieces between occurrences of the characters of sep
RECURSIVE Split(_, _)
Split(s, seps) ==
  LET i == Find(s, seps) IN
  IF i = 0 THEN <<s>>
  ELSE <<SubSeq(s, 1, i - 1)>> \o Split(Drop(s, i + 1), seps)

\* s.split(sep, 1)
Split1(s, seps) ==
  LET i == Find(s, seps) IN
  IF i = 0 THEN <<s>> ELSE <<SubSeq(s, 1, i - 1), Drop(s, i + 1)>>

RECURSIVE Join(_, _)
Join(sep, items) ==
  IF items = <<>> THEN ""
  ELSE IF Len(items) = 1 THEN items[1]
  ELSE items[1] \o sep \o Join(sep, Tail(items))

----------------------------------------------------------------------------
(* datetime.datetime.strptime for the directives parse_year uses.          *)
(* Each directive is its regular expression from _strptime.TimeRE, written *)
(* as the ordered list of its alternatives, an alternative being a list of *)
(* character classes.  The expression is compiled with IGNORECASE, so a    *)
(* literal letter of the format matches either case.                       *)

D01 == {"0", "1"}
D02 == {"0", "1", "2"}
D03 == {"0", "1", "2", "3"}
D05 == {"0", "1", "2", "3", "4", "5"}
D12 == {"1", "2"}
D19 == Digits \ {"0"}
Sign == {"+", "-"}

DirectiveRE(d) ==
  CASE d = "Y" -> << <<Digits, Digits, Digits, Digits>> >>
    [] d = "m" -> << <<{"1"}, D02>>, <<{"0"}, D19>>, <<D19>> >>
    [] d = "d" -> << <<{"3"}, D01>>, <<D12, Digits>>, <<{"0"}, D19>>, <<D19>>,
                     <<{" "}, D19>> >>
    [] d = "H" -> << <<{"2"}, D03>>, <<D01, Digits>>, <<Digits>> >>
    [] d = "M" -> << <<D05, Digits>>, <<Digits>> >>
    [] d = "S" -> << <<{"6"}, D01>>, <<D05, Digits>>, <<Digits>> >>
    \* [+-]\d\d:?[0-5]\d(:?[0-5]\d(\.\d{1,6})?)?|(?-i:Z), greedy: longest first.
    \* The fractional part is left out: it needs 12 characters and
    \* parse_year hands strptime at most 19, 14 of them before %z.
    [] d = "z" -> << <<Sign, Digits, Digits, {":"}, D05, Digits, {":"}, D05, Digits>>,
                     <<Sign, Digits, Digits, {":"}, D05, Digits, D05, Digits>>,
                     <<Sign, Digits, Digits, {":"}, D05, Digits>>,
                     <<Sign, Digits, Digits, D05, Digits, {":"}, D05, Digits>>,
                     <<Sign, Digits, Digits, D05, Digits, D05, Digits>>,
                     <<Sign, Digits, Digits, D05, Digits>>,
                     <<{"Z"}>> >>

LiteralRE(c) ==
  IF c \in Chars(UpperAlpha) \/ c \in Chars(LowerAlpha)
  THEN << <<{c, LowerChar(c)}>> >>
  ELSE << <<{c}>> >>

\* The format string as a list of [dir, alts]: "%X" is a directive, any
\* other character a literal.
RECURSIVE FormatItems(_)
FormatItems(fmt) ==
  IF fmt = "" THEN <<>>
  ELSE IF Char(fmt, 1) = "%"
       THEN <<[dir |-> Char(fmt, 2), alts |-> DirectiveRE(Char(fmt, 2))]>>
            \o FormatItems(Drop(fmt, 3))
       ELSE <<[dir |-> "", alts |-> LiteralRE(Char(fmt, 1))]>>
            \o FormatItems(Drop(fmt, 2))

MatchPat(s, i, pat) ==
  /\ i + Len(pat) - 1 <= Len(s)
  /\ \A j \in 1..Len(pat) : Char(s, i + j - 1) \in pat[j]

NoMatch == [ok |-> FALSE, lex |-> <<>>, end |-> 0]

\* format_regex.match(data_string): the first path through the ordered
\* alternatives that matches the whole pattern, with backtracking.
RECURSIVE MatchFrom(_, _, _, _)
RECURSIVE TryAlts(_, _, _, _, _)
MatchFrom(s, i, items, k) ==
  IF k > Len(items) THEN [ok |-> TRUE, lex |-> <<>>, end |-> i]
  ELSE TryAlts(s, i, items, k, 1)

TryAlts(s, i, items, k, a) ==
  IF a > Len(items[k].alts) THEN NoMatch
  ELSE LET pat == items[k].alts[a] IN
       IF MatchPat(s, i, pat)
       THEN LET r == MatchFrom(s, i + Len(pat), items, k + 1) IN
            IF r.ok
            THEN [ok |-> TRUE,
                  lex |-> <<SubSeq(s, i, i + Len(pat) - 1)>> \o r.lex,
                  end |-> r.end]
            ELSE TryAlts(s, i, items, k, a + 1)
       ELSE TryAlts(s, i, items, k, a + 1)

\* The lexeme the match gave directive d, "" when the format has none.
Field(items, lex, d) ==
  IF \E k \in 1..Len(items) : items[k].dir = d
  THEN lex[CHOOSE k \in 1..Len(items) : items[k].dir = d]
  ELSE ""

IsLeap(y) == (y % 4 = 0 /\ y % 100 # 0) \/ y % 400 = 0

DaysInMonth(y, m) ==
  IF m = 2 THEN (IF IsLeap(y) THEN 29 ELSE 28)
  ELSE IF m \in {4, 6, 9, 11} THEN 30 ELSE 31

\* utcoffset in seconds of a %z lexeme ("Z" and "" give 0)
TzSeconds(z) ==
  LET d == Keep(z, Digits) IN
  IF Len(d) < 4 THEN 0
  ELSE 3600 * StrToInt(SubSeq(d, 1, 2)) + 60 * StrToInt(SubSeq(d, 3, 4))
       + StrToInt(SubSeq(d, 5, Len(d)))

\* strptime(data, fmt).year, or ValueError: no match, unconverted data, or
\* field values datetime refuses (year 0, day past the month's end,
\* second 60 or 61, an offset of 24 hours or more).
strptime_year(data, fmt) ==
  LET items == FormatItems(fmt)
      m == MatchFrom(data, 1, items, 1)
  IN
  IF ~m.ok \/ m.end # Len(data) + 1 THEN ValueError
  ELSE LET year == StrToInt(Field(items, m.lex, "Y"))
           month == StrToInt(Field(items, m.lex, "m"))
           day == StrToInt(Field(items, m.lex, "d"))
           second == StrToInt(Field(items, m.lex, "S"))
           tz == TzSeconds(Field(items, m.lex, "z"))
       IN
       IF year < 1 \/ day > DaysInMonth(year, month) \/ second > 59
          \/ tz >= 86400
       THEN ValueError
       ELSE IntToStr(year)

----------------------------------------------------------------------------
(* parse_year *)

YearFormats == <<"%Y-%m-%dT%H:%M:%S%z", "%Y-%m-%dT%H:%M:%S", "%Y-%m-%d">>

RECURSIVE parse_year_from(_, _)
parse_year_from(value, k) ==
  IF k > Len(YearFormats) THEN ""
  ELSE LET fmt == YearFormats[k]
           y == strptime_year(Take(value, Len(fmt)), fmt)
       IN IF y # ValueError THEN y ELSE parse_year_from(value, k + 1)

parse_year(value) ==
  IF ~Truthy(value) THEN "" ELSE parse_year_from(value, 1)

----------------------------------------------------------------------------
(* The state of a process that has not started its run; the specifications *)
(* of the single functions leave it alone.                                 *)

RunIdle ==
  /\ input_exists = TRUE
  /\ rows_read = <<>>
  /\ cur = None
  /\ written = <<>>
  /\ count = 0
  /\ stdout = <<>>
  /\ books = <<>>
  /\ books_dir = FALSE
  /\ covers = <<>>
  /\ covers_dir = FALSE
  /\ exit_status = ""

----------------------------------------------------------------------------
(* Specification SpecYear: parse_year applied to one pubdate value *)

YearTexts == {"2020", "1999", "0099", "0000", "20"}
MonthTexts == {"01", "1", "12", "13", "02", "2"}
DayTexts == {"02", "2", "29", "30", "31", " 2"}
TimeTexts == {"", "T03:04:05", "T3:4:5", "t3:4:5", "T3:4:61", "T23:59:59",
              "T03:04:05+00:00", "T03:04:05-05:30", "T3:4:5+0000",
              "T3:4:5Z", "T3:4:5+2400", " 03:04:05", "xyz"}

YearInputs ==
  {None, "", "garbage", "20200102", "2020"}
  \cup {y \o "-" \o m \o "-" \o d \o t :
          y \in YearTexts, m \in MonthTexts, d \in DayTexts, t \in TimeTexts}

InitYear ==
  /\ pc = "call"
  /\ arg \in YearInputs
  /\ ret = None
  /\ env = None
  /\ api_key = FALSE
  /\ ai_calls = 0
  /\ RunIdle

CallParseYear ==
  /\ pc = "call"
  /\ ret' = parse_year(arg)
  /\ pc' = "return"
  /\ UNCHANGED <<arg, env, api_key, ai_calls, runvars>>

NextYear == CallParseYear

SpecYear == InitYear /\ [][NextYear]_vars

\* The three supported layouts, zero-padded, naming a date that exists.
IsDigits(s) == \A i \in 1..Len(s) : Char(s, i) \in Digits

IsDateOnly(v) ==
  /\ Len(v) = 10
  /\ IsDigits(SubSeq(v, 1, 4)) /\ Char(v, 5) = "-"
  /\ IsDigits(SubSeq(v, 6, 7)) /\ Char(v, 8) = "-"
  /\ IsDigits(SubSeq(v, 9, 10))
  /\ StrToInt(SubSeq(v, 1, 4)) >= 1
  /\ StrToInt(SubSeq(v, 6, 7)) \in 1..12
  /\ StrToInt(SubSeq(v, 9, 10)) \in
       1..DaysInMonth(StrToInt(SubSeq(v, 1, 4)), StrToInt(SubSeq(v, 6, 7)))

IsNaiveTimestamp(v) ==
  /\ Len(v) = 19
  /\ IsDateOnly(SubSeq(v, 1, 10)) /\ Char(v, 11) = "T"
  /\ IsDigits(SubSeq(v, 12, 13)) /\ Char(v, 14) = ":"
  /\ IsDigits(SubSeq(v, 15, 16)) /\ Char(v, 17) = ":"
  /\ IsDigits(SubSeq(v, 18, 19))
  /\ StrToInt(SubSeq(v, 12, 13)) <= 23
  /\ StrToInt(SubSeq(v, 15, 16)) <= 59
  /\ StrToInt(SubSeq(v, 18, 19)) <= 59

IsAwareTimestamp(v) ==
  /\ Len(v) = 25
  /\ IsNaiveTimestamp(SubSeq(v, 1, 19))
  /\ Char(v, 20) \in Sign
  /\ IsDigits(SubSeq(v, 21, 22)) /\ Char(v, 23) = ":"
  /\ IsDigits(SubSeq(v, 24, 25))
  /\ StrToInt(SubSeq(v, 21, 22)) <= 23
  /\ StrToInt(SubSeq(v, 24, 25)) <= 59

IsSupportedDate(v) ==
  Truthy(v) /\ (IsAwareTimestamp(v) \/ IsNaiveTimestamp(v) \/ IsDateOnly(v))

\* No format of the list parses the whole value.
IsUnparseable(v) ==
  ~Truthy(v) \/ \A k \in 1..Len(YearFormats) : strptime_year(v, YearFormats[k]) = ValueError

\* C1 (as claimed): a pubdate in one of the three supported formats gives
\* its 4-digit year as a string; an absent or unparseable value gives the
\* empty string; nothing is raised.
C1_ParseYearContract ==
  pc = "return" =>
    /\ ret # ValueError
    /\ IsSupportedDate(arg) => ret = SubSeq(arg, 1, 4)
    /\ IsUnparseable(arg) => ret = ""

----------------------------------------------------------------------------
(* Regular expressions of the re module, as far as the script uses them:  *)
(* a pattern is a list of [cls, min, max], a character class repeated      *)
(* greedily between min and max times, matched with backtracking.          *)

CharAt(s, i) == IF i \in 1..Len(s) THEN Char(s, i) ELSE ""

One(cls) == [cls |-> cls, min |-> 1, max |-> 1]
Opt(cls) == [cls |-> cls, min |-> 0, max |-> 1]
Rep(cls, lo, hi) == [cls |-> cls, min |-> lo, max |-> hi]

\* How many characters of s from position i on, max at most, lie in cls.
RECURSIVE Run(_, _, _, _)
Run(s, i, cls, max) ==
  IF max = 0 \/ CharAt(s, i) \notin cls THEN 0
  ELSE 1 + Run(s, i + 1, cls, max - 1)

\* The position after the match of pat[k..] at position i of s; 0: no match.
RECURSIVE ReMatch(_, _, _, _)
RECURSIVE ReTry(_, _, _, _, _)
ReMatch(s, i, pat, k) ==
  IF k > Len(pat) THEN i
  ELSE ReTry(s, i, pat, k, Run(s, i, pat[k].cls, pat[k].max))

ReTry(s, i, pat, k, n) ==
  IF n < pat[k].min THEN 0
  ELSE LET r == ReMatch(s, i + n, pat, k + 1) IN
       IF r # 0 THEN r ELSE ReTry(s, i, pat, k, n - 1)

\* re.findall(pat, s) for a pattern that matches no empty string
RECURSIVE FindAllFrom(_, _, _)
FindAllFrom(pat, s, i) ==
  IF i > Len(s) THEN <<>>
  ELSE LET e == ReMatch(s, i, pat, 1) IN
       IF e # 0 THEN <<SubSeq(s, i, e - 1)>> \o FindAllFrom(pat, s, e)
       ELSE FindAllFrom(pat, s, i + 1)

FindAll(pat, s) == FindAllFrom(pat, s, 1)

----------------------------------------------------------------------------
(* clean_isbn, extract_isbn_from_identifiers, find_isbn *)

IsbnChars == Digits \cup {"X", "x"}

clean_isbn(candidate) ==
  LET digits == Keep(candidate, IsbnChars) IN
  IF Len(digits) = 13 THEN digits
  ELSE IF Len(digits) = 10 THEN digits
  ELSE ""

RECURSIVE extract_isbn_from_parts(_)
extract_isbn_from_parts(parts) ==
  IF parts = <<>> THEN ""
  ELSE LET key_value == Split1(parts[1], {":"}) IN
       IF Len(key_value) # 2 THEN extract_isbn_from_parts(Tail(parts))
       ELSE IF strip(lower(key_value[1])) = "isbn"
               /\ clean_isbn(key_value[2]) # ""
            THEN clean_isbn(key_value[2])
            ELSE extract_isbn_from_parts(Tail(parts))

extract_isbn_from_identifiers(value) ==
  IF ~Truthy(value) THEN "" ELSE extract_isbn_from_parts(Split(value, {","}))

\* The pattern of line 280.  It is a raw string, so "\\d" is the regular
\* expression "a backslash, then the letter d", and {1,5} repeats the d.
SepClass == {"-", " "}

IsbnScanPattern ==
  <<One({"9"}), One({"7"}), One({"8", "9"}), Opt(SepClass),
    One({"\\"}), Rep({"d"}, 1, 5), Opt(SepClass),
    One({"\\"}), Rep({"d"}, 1, 7), Opt(SepClass),
    One({"\\"}), Rep({"d"}, 1, 7), Opt(SepClass),
    One(IsbnChars)>>

RECURSIVE first_clean_isbn(_)
first_clean_isbn(matches) ==
  IF matches = <<>> THEN ""
  ELSE IF clean_isbn(matches[1]) # "" THEN clean_isbn(matches[1])
  ELSE first_clean_isbn(Tail(matches))

scan_isbn(row) ==
  first_clean_isbn(FindAll(IsbnScanPattern, Or(Get(row, "comments"), "")))

find_isbn_identifiers_first(row) ==
  LET direct == clean_isbn(Remove(Or(Get(row, "isbn"), ""), "-"))
      ident == extract_isbn_from_identifiers(GetDefault(row, "identifiers", ""))
  IN IF ident # "" THEN ident
     ELSE IF direct # "" THEN direct
     ELSE scan_isbn(row)

find_isbn(row) ==
  LET direct == clean_isbn(Remove(Or(Get(row, "isbn"), ""), "-"))
      ident == extract_isbn_from_identifiers(GetDefault(row, "identifiers", ""))
  IN IF direct # "" THEN direct
     ELSE IF ident # "" THEN ident
     ELSE scan_isbn(row)

----------------------------------------------------------------------------
(* Rows: one value per recognized column (section "Input format") *)

Columns == {"title", "authors", "author", "comments", "isbn", "id", "uuid",
            "pubdate", "rating", "tags", "languages", "identifiers", "cover"}

\* The row of a CSV whose header names no recognized column.
BlankRow == [c \in Columns |-> Absent]

----------------------------------------------------------------------------
(* Specification SpecIsbn: find_isbn applied to one row *)

IsbnTexts == {None, "", "9781402894626", "978-1-4028-9462-6", "080442957X",
              "0-8044-2957-x", "12345", "97814028946261"}

IdentifierTexts ==
  {Absent, None, "", "isbn:9780306406157",
   "mobi-asin:B00ABCDEFG,isbn:9780306406157", " ISBN :978-0-306-40615-7",
   "isbn:123,isbn:0306406152", "asin:B00ABCDEFG", "isbn",
   "isbn:97803:06406157", "isbn13:9780306406157"}

CommentTexts ==
  {None, "", "A fine book.", "ISBN 978-3-16-148410-0 inside.",
   "ISBN 9783161484100.", "See 979 10 90636 07 1 now",
   "978\\d\\dd\\d5", "978-\\ddddd-\\ddddddd-\\d-X", "Call 978-555-0100 9793161484100"}

IsbnRows ==
  {[BlankRow EXCEPT !["isbn"] = i, !["identifiers"] = d, !["comments"] = c] :
     i \in IsbnTexts, d \in IdentifierTexts, c \in CommentTexts}

InitIsbn ==
  /\ pc = "call"
  /\ arg \in IsbnRows
  /\ ret = None
  /\ env = None
  /\ api_key = FALSE
  /\ ai_calls = 0
  /\ RunIdle

CallFindIsbn ==
  /\ pc = "call"
  /\ ret' = find_isbn(arg)
  /\ pc' = "return"
  /\ UNCHANGED <<arg, env, api_key, ai_calls, runvars>>

NextIsbn == CallFindIsbn

SpecIsbn == InitIsbn /\ [][NextIsbn]_vars

\* The pattern the description scan is meant to find: 978 or 979, three
\* groups of digits and a final digit or X, each optionally preceded by a
\* hyphen or a space.
Isbn13Shape ==
  <<One({"9"}), One({"7"}), One({"8", "9"}), Opt(SepClass),
    Rep(Digits, 1, 5), Opt(SepClass), Rep(Digits, 1, 7), Opt(SepClass),
    Rep(Digits, 1, 7), Opt(SepClass), One(IsbnChars)>>

Isbn13InText(text) ==
  SelectSeq(FindAll(Isbn13Shape, text), LAMBDA x : Len(Keep(x, IsbnChars)) = 13)

NoColumnIsbn(row) ==
  /\ clean_isbn(Remove(Or(Get(row, "isbn"), ""), "-")) = ""
  /\ extract_isbn_from_identifiers(GetDefault(row, "identifiers", "")) = ""

\* C2 (as claimed): when neither the isbn column nor the identifiers column
\* gives a valid ISBN and the comments hold a 978/979-prefixed 13-digit
\* pattern, find_isbn returns the pattern's 13 digits, separators removed.
C2_DescriptionScanFindsIsbn13 ==
  (pc = "return" /\ NoColumnIsbn(arg) /\ Truthy(arg["comments"])
     /\ Isbn13InText(Or(arg["comments"], "")) # <<>>)
  => ret = Keep(Isbn13InText(arg["comments"])[1], IsbnChars)

\* The candidates of a row in strategy order: the isbn column, the values
\* of the identifiers pairs keyed isbn (any case), the matches of the scan.
IsIsbnPair(part) ==
  Find(part, {":"}) # 0
  /\ strip(lower(SubSeq(part, 1, Find(part, {":"}) - 1))) = "isbn"

IsbnCandidates(row) ==
  LET idents == IF Truthy(row["identifiers"])
                THEN SelectSeq(Split(row["identifiers"], {","}), IsIsbnPair)
                ELSE <<>>
  IN <<Or(Get(row, "isbn"), "")>>
     \o [k \in 1..Len(idents) |-> Drop(idents[k], Find(idents[k], {":"}) + 1)]
     \o FindAll(IsbnScanPattern, Or(Get(row, "comments"), ""))

IsValidIsbn(c) == Len(Keep(c, IsbnChars)) \in {10, 13}

\* C3: find_isbn returns the cleaned value of the first candidate, in the
\* order isbn column, identifiers pairs keyed isbn, description scan, that
\* has 10 or 13 ISBN characters, and the empty string exactly when no
\* candidate is valid.
C3_FirstValidCandidateWins ==
  pc = "return" =>
    LET cands == IsbnCandidates(arg)
        valid == {k \in 1..Len(cands) : IsValidIsbn(cands[k])}
    IN /\ (valid = {}) <=> (ret = "")
       /\ valid # {} =>
            ret = Keep(cands[CHOOSE k \in valid : \A j \in valid : k <= j],
                       IsbnChars)

\* C3 witness: an invalid isbn column did not block a valid identifiers
\* value, and elsewhere a valid isbn column won over a valid identifiers one.
C3_Witness ==
  /\ pc = "return"
  /\ arg["isbn"] = "12345"
  /\ arg["identifiers"] = " ISBN :978-0-306-40615-7"
  /\ ret = "9780306406157"

----------------------------------------------------------------------------
(* safe_slug, make_slug *)

SlugChars == Chars(LowerAlpha) \cup Digits

RECURSIVE SkipNonSlug(_)
SkipNonSlug(text) ==
  IF text # "" /\ Char(text, 1) \notin SlugChars
  THEN SkipNonSlug(Tail(text)) ELSE text

\* re.sub(r"[^a-z0-9]+", "-", text)
RECURSIVE HyphenateRuns(_)
HyphenateRuns(text) ==
  IF text = "" THEN ""
  ELSE IF Char(text, 1) \in SlugChars
       THEN Char(text, 1) \o HyphenateRuns(Tail(text))
       ELSE "-" \o HyphenateRuns(SkipNonSlug(text))

\* None has no strip(): text.strip() raises AttributeError.
safe_slug(text) ==
  IF text = None THEN AttributeError
  ELSE LET t == StripChars(HyphenateRuns(lower(strip(text))), {"-"}) IN
       IF t = "" THEN "book" ELSE t

make_slug(row) ==
  IF Truthy(Get(row, "uuid")) THEN row["uuid"]
  ELSE IF Truthy(Get(row, "id")) THEN "book-" \o row["id"]
  ELSE safe_slug(GetDefault(row, "title", "book"))

----------------------------------------------------------------------------
(* Specification SpecSlug: make_slug applied to one row *)

UuidTexts == {Absent, None, "", "abc-123", "U 1"}
IdTexts == {Absent, None, "", "42", "007"}
TitleTexts == {Absent, None, "", "Hello, World!", "  A  b ", "!!!",
               "C++ & C#", "--x--", "Book 2", "hello world"}

SlugRows ==
  {[BlankRow EXCEPT !["uuid"] = u, !["id"] = i, !["title"] = t] :
     u \in UuidTexts, i \in IdTexts, t \in TitleTexts}

InitSlug ==
  /\ pc = "call"
  /\ arg \in SlugRows
  /\ ret = None
  /\ env = None
  /\ api_key = FALSE
  /\ ai_calls = 0
  /\ RunIdle

CallMakeSlug ==
  /\ pc = "call"
  /\ ret' = make_slug(arg)
  /\ pc' = "return"
  /\ UNCHANGED <<arg, env, api_key, ai_calls, runvars>>

NextSlug == CallMakeSlug

SpecSlug == InitSlug /\ [][NextSlug]_vars

\* The maximal runs of [a-z0-9] of a text, in order.
RECURSIVE AlnumWords(_)
AlnumWords(text) ==
  LET t == SkipNonSlug(text)
      n == Run(t, 1, SlugChars, Len(t))
  IN IF t = "" THEN <<>>
     ELSE <<SubSeq(t, 1, n)>> \o AlnumWords(Drop(t, n + 1))

\* C4 (as claimed): a non-empty uuid is the slug; else a non-empty id gives
\* "book-<id>"; else the slug is the lowercased title with every run of
\* non-alphanumeric characters turned into one hyphen and no hyphen at
\* either end; and it is "book" when that is empty or the row has no title.
C4_SlugPriority ==
  pc = "return" =>
    IF Truthy(arg["uuid"]) THEN ret = arg["uuid"]
    ELSE IF Truthy(arg["id"]) THEN ret = "book-" \o arg["id"]
    ELSE IF Truthy(arg["title"]) /\ AlnumWords(lower(arg["title"])) # <<>>
         THEN ret = Join("-", AlnumWords(lower(arg["title"])))
         ELSE ret = "book"

----------------------------------------------------------------------------
(* to_list *)

RECURSIVE StripAll(_)
StripAll(parts) ==
  IF parts = <<>> THEN <<>> ELSE <<strip(parts[1])>> \o StripAll(Tail(parts))

\* re.split(r"[;, ]+", value), each part stripped, the empty ones dropped
to_list(value) ==
  IF ~Truthy(value) THEN <<>>
  ELSE SelectSeq(StripAll(Split(value, {";", ",", " "})), LAMBDA x : x # "")

----------------------------------------------------------------------------
(* detect_category_ai, detect_category *)

ALLOWED_CATEGORIES ==
  {
    "Engineering", "Science", "Fiction", "Nonfiction", "Business",
    "Psychology", "Arts", "Physical Health", "Uncategorized"
  }

\* tag -> category, as <<tag, category>> pairs
TAG_CATEGORY_HINTS ==
  {<<"comp_programming", "Engineering">>,
   <<"programming", "Engineering">>,
   <<"engineering", "Engineering">>,
   <<"security", "Engineering">>,
   <<"cloud", "Engineering">>,
   <<"devops", "Engineering">>,
   <<"infrastructure", "Engineering">>,
   <<"web", "Engineering">>,
   <<"software", "Engineering">>,
   <<"sci_psychology", "Science">>,
   <<"literature_19", "Fiction">>,
   <<"prose_rus_classic", "Fiction">>,
   <<"child_prose", "Fiction">>,
   <<"nonfiction", "Nonfiction">>,
   <<"business", "Business">>,
   <<"psychology", "Psychology">>,
   <<"arts", "Arts">>,
   <<"physical_health", "Physical Health">>,
   <<"health", "Physical Health">>,
   <<"fitness", "Physical Health">>,
   <<"running", "Physical Health">>}

\* category -> keywords, in the dict's insertion order
KEYWORD_HINTS ==
  <<
    <<"Engineering",
      <<
        "programming", "software", "engineering", "systems", "system",
        "algorithm", "computer", "developer", "devops", "code", "ai",
        "machine learning", "ml", "data science", "cloud", "aws",
        "azure", "gcp", "kubernetes", "docker", "containers",
        "security", "secure", "infosec", "cybersecurity",
        "network security", "application security", "web security",
        "web application security", "sre", "site reliability",
        "observability", "monitoring", "logging", "infrastructure",
        "iac", "terraform", "ansible", "policy as code"
      >> >>,
    <<"Science",
      <<
        "science", "physics", "chemistry", "biology", "math",
        "mathematics", "discrete math", "discrete mathematics",
        "astronomy", "geology", "cognitive", "neuroscience"
      >> >>,
    <<"Psychology",
      <<
        "psychology", "psychological", "cognitive", "mind", "behavior",
        "behaviour", "brain"
      >> >>,
    <<"Business",
      <<
        "business", "startup", "start-up", "strategy", "management",
        "leadership", "marketing", "sales", "finance", "economics",
        "entrepreneur"
      >> >>,
    <<"Arts",
      <<
        "art", "arts", "design", "music", "painting", "photography",
        "film", "cinema", "theater", "theatre", "language"
      >> >>,
    <<"Physical Health",
      <<
        "health", "fitness", "exercise", "training", "run", "running",
        "marathon", "triathlon", "sport", "sports", "athlete",
        "coaching", "diet", "dieting", "nutrition", "wellness"
      >> >>,
    <<"Fiction",
      <<
        "novel", "story", "stories", "fiction", "fantasy", "sci-fi",
        "science fiction", "thriller", "romance", "mystery", "prose",
        "classic"
      >> >>,
    <<"Nonfiction",
      <<
        "nonfiction", "non-fiction", "biography", "memoir", "history",
        "essay", "reportage"
      >> >>
  >>

\* What a classifier request can come to: an exception inside the try
\* block (URLError, timeout, bad_json, no_choices), a payload without
\* message content (no_content), or a reply with its content.  NoCall is
\* the outcome when no request is made.
NoCall == [kind |-> "none", content |-> ""]

AiFailureKinds == {"URLError", "timeout", "bad_json", "no_choices", "no_content"}

detect_category_ai_unchecked(title, tags, comments, key, outcome) ==
  IF ~key THEN None
  ELSE IF outcome.kind # "reply" THEN None
  ELSE LET guess == strip(Split(strip(outcome.content), {"\n", ",", ";"})[1])
       IN IF guess # "" THEN guess ELSE None

detect_category_ai(title, tags, comments, key, outcome) ==
  IF ~key THEN None
  ELSE IF outcome.kind # "reply" THEN None
  ELSE LET guess == strip(Split(strip(outcome.content), {"\n", ",", ";"})[1])
       IN IF guess \in ALLOWED_CATEGORIES THEN guess ELSE None

\* TAG_CATEGORY_HINTS.get(tag)
TagHint(tag) ==
  IF \E p \in TAG_CATEGORY_HINTS : p[1] = tag
  THEN (CHOOSE p \in TAG_CATEGORY_HINTS : p[1] = tag)[2]
  ELSE None

RECURSIVE category_by_tags(_)
category_by_tags(tags) ==
  IF tags = <<>> THEN None
  ELSE IF TagHint(lower(tags[1])) \in ALLOWED_CATEGORIES
       THEN TagHint(lower(tags[1]))
       ELSE category_by_tags(Tail(tags))

RECURSIVE category_by_keywords(_, _)
category_by_keywords(text_blob, k) ==
  IF k > Len(KEYWORD_HINTS) THEN None
  ELSE IF \E h \in 1..Len(KEYWORD_HINTS[k][2]) :
            Contains(text_blob, KEYWORD_HINTS[k][2][h])
       THEN (IF KEYWORD_HINTS[k][1] \in ALLOWED_CATEGORIES
             THEN KEYWORD_HINTS[k][1] ELSE "Uncategorized")
       ELSE category_by_keywords(text_blob, k + 1)

TextBlob(title, tags, comments) ==
  lower(Join(" ", tags \o <<title, Or(comments, "")>>))

detect_category_keywords_first(title, tags, comments, key, outcome) ==
  LET ai_guess == detect_category_ai(title, tags, comments, key, outcome)
      by_tag == category_by_tags(tags)
      by_keyword == category_by_keywords(TextBlob(title, tags, comments), 1)
  IN IF Truthy(ai_guess) THEN ai_guess
     ELSE IF by_keyword # None THEN by_keyword
     ELSE IF by_tag # None THEN by_tag
     ELSE "Uncategorized"

detect_category(title, tags, comments, key, outcome) ==
  LET ai_guess == detect_category_ai(title, tags, comments, key, outcome)
      by_tag == category_by_tags(tags)
      by_keyword == category_by_keywords(TextBlob(title, tags, comments), 1)
  IN IF Truthy(ai_guess) THEN ai_guess
     ELSE IF by_tag # None THEN by_tag
     ELSE IF by_keyword # None THEN by_keyword
     ELSE "Uncategorized"

\* The arguments build_front_matter passes to detect_category (lines 345-353)
CategoryTitle(row) == Or(Get(row, "title"), "Untitled")
CategoryTags(row) == to_list(GetDefault(row, "tags", ""))
CategoryComments(row) == GetDefault(row, "comments", "")

----------------------------------------------------------------------------
(* Specification SpecCategory: detect_category applied to one row, the     *)
(* classifier's answer drawn when the request is made                      *)

AiReplies == {"Engineering", "Physical Health", "Uncategorized", " Science\n",
              "Fiction, probably", "Arts; Fiction", "Nonfiction\nIt is a memoir.",
              "engineering", "Category: Business", "Poetry", "", "Science."}

AiOutcomes ==
  {[kind |-> k, content |-> ""] : k \in AiFailureKinds}
  \cup {[kind |-> "reply", content |-> c] : c \in AiReplies}

CategoryTitles == {None, "", "Dune", "Systems Design", "The Art of War",
                   "Said and Done"}
CategoryTagTexts == {Absent, "", "literature_19", "Programming; web",
                     "fitness, business", "poetry health", "zen"}
CategoryCommentTexts == {None, "", "A memoir of a marathon.", "Quiet words."}

CategoryRows ==
  {[BlankRow EXCEPT !["title"] = t, !["tags"] = g, !["comments"] = c] :
     t \in CategoryTitles, g \in CategoryTagTexts, c \in CategoryCommentTexts}

InitCategory ==
  /\ pc = "call"
  /\ arg \in CategoryRows
  /\ ret = None
  /\ env = [outcome |-> NoCall, ai_guess |-> None]
  /\ api_key \in BOOLEAN
  /\ ai_calls = 0
  /\ RunIdle

CallDetectCategory ==
  /\ pc = "call"
  /\ \E outcome \in (IF api_key THEN AiOutcomes ELSE {NoCall}) :
       /\ env' = [outcome |-> outcome,
                  ai_guess |-> detect_category_ai(CategoryTitle(arg),
                                 CategoryTags(arg), CategoryComments(arg),
                                 api_key, outcome)]
       /\ ret' = detect_category(CategoryTitle(arg), CategoryTags(arg),
                                 CategoryComments(arg), api_key, outcome)
  /\ ai_calls' = IF api_key THEN ai_calls + 1 ELSE ai_calls
  /\ pc' = "return"
  /\ UNCHANGED <<arg, api_key, runvars>>

NextCategory == CallDetectCategory

SpecCategory == InitCategory /\ [][NextCategory]_vars

\* The rule chain stated on the tables: the category of the first tag, in
\* tag order, that the tag table knows; else the first category, in the
\* keyword table's order, one of whose keywords the text holds; else
\* "Uncategorized".
RuleChainCategory(row) ==
  LET tags == CategoryTags(row)
      hits == {i \in 1..Len(tags) :
                 \E p \in TAG_CATEGORY_HINTS : p[1] = lower(tags[i])}
      text == lower(Join(" ", tags \o <<CategoryTitle(row),
                                        Or(CategoryComments(row), "")>>))
      cats == {k \in 1..Len(KEYWORD_HINTS) :
                 \E h \in 1..Len(KEYWORD_HINTS[k][2]) :
                   Contains(text, KEYWORD_HINTS[k][2][h])}
  IN IF hits # {}
     THEN LET i == CHOOSE i \in hits : \A j \in hits : i <= j
          IN (CHOOSE p \in TAG_CATEGORY_HINTS : p[1] = lower(tags[i]))[2]
     ELSE IF cats # {}
     THEN KEYWORD_HINTS[CHOOSE k \in cats : \A j \in cats : k <= j][1]
     ELSE "Uncategorized"

\* C8: when the classifier gives no answer, detect_category returns the
\* category of the first tag found in the tag table, else the first
\* category in table order with a keyword contained in the lowercased
\* tags + title + description text, else "Uncategorized".
C8_TagThenKeywordThenFallback ==
  (pc = "return" /\ env.ai_guess = None) => ret = RuleChainCategory(arg)

\* C8 witness: a tag decided the category although no keyword matched, and
\* a tag decided it against a keyword of another category.
C8_Witness ==
  /\ pc = "return"
  /\ env.ai_guess = None
  /\ arg["tags"] = "literature_19"
  /\ category_by_keywords(TextBlob(CategoryTitle(arg), CategoryTags(arg),
                                   CategoryComments(arg)), 1) = None
  /\ ret = "Fiction"

\* C9 (as claimed): the classifier yields a category only when a credential
\* is configured and the reply exactly matches an allowed category name.
C9_ExactReplyOnly ==
  (pc = "return" /\ env.ai_guess # None) =>
    /\ api_key
    /\ env.outcome.kind = "reply"
    /\ env.outcome.content \in ALLOWED_CATEGORIES

\* The reply up to its first newline, comma or semicolon, without the
\* whitespace around it.
FirstToken(content) ==
  LET t == strip(content)
      cut == {i \in 1..Len(t) : Char(t, i) \in {"\n", ",", ";"}}
  IN strip(IF cut = {} THEN t
           ELSE SubSeq(t, 1, (CHOOSE i \in cut : \A j \in cut : i <= j) - 1))

\* C9 (amended): the classifier yields a category exactly when a credential
\* is configured and the first token of the reply is an allowed category
\* name, and that name is the result; every other outcome is no answer:
\* the result is then the rule chain's, one request at most was sent, and
\* the result is always an allowed category.
C9_FirstTokenOfReply ==
  pc = "return" =>
    LET accepted == /\ api_key
                    /\ env.outcome.kind = "reply"
                    /\ FirstToken(env.outcome.content) \in ALLOWED_CATEGORIES
    IN /\ accepted <=> env.ai_guess # None
       /\ accepted => ret = FirstToken(env.outcome.content)
       /\ ~accepted => ret = RuleChainCategory(arg)
       /\ ai_calls = (IF api_key THEN 1 ELSE 0)
       /\ ret \in ALLOWED_CATEGORIES

\* C9 witness: a reply with text after the category name was accepted, and
\* a failed request fell through to the tag lookup.
C9_Witness ==
  /\ pc = "return"
  /\ api_key
  /\ env.outcome = [kind |-> "reply", content |-> "Fiction, probably"]
  /\ ret = "Fiction"

----------------------------------------------------------------------------
(* extract_asin_from_identifiers, maybe_copy_cover, find_cover *)

BOOK_COVERS_URL_PREFIX == "assets/img/book_covers"

AlnumChars == Chars(UpperAlpha) \cup Chars(LowerAlpha) \cup Digits

RECURSIVE extract_asin_from_parts(_)
extract_asin_from_parts(parts) ==
  IF parts = <<>> THEN ""
  ELSE LET key_value == Split1(parts[1], {":"}) IN
       IF Len(key_value) # 2 THEN extract_asin_from_parts(Tail(parts))
       ELSE IF Contains(strip(lower(key_value[1])), "asin")
               /\ Keep(key_value[2], AlnumChars) # ""
            THEN Keep(key_value[2], AlnumChars)
            ELSE extract_asin_from_parts(Tail(parts))

extract_asin_from_identifiers(value) ==
  IF ~Truthy(value) THEN "" ELSE extract_asin_from_parts(Split(value, {","}))

\* Path(path).name and Path(path).suffix
RFind(s, c) ==
  IF \E i \in 1..Len(s) : Char(s, i) = c
  THEN CHOOSE i \in 1..Len(s) :
         Char(s, i) = c /\ \A j \in (i + 1)..Len(s) : Char(s, j) # c
  ELSE 0

PathName(path) == Drop(RStrip(path, {"/"}), RFind(RStrip(path, {"/"}), "/") + 1)

PathSuffix(path) ==
  LET name == PathName(path)
      i == RFind(name, ".")
  IN IF 1 < i /\ i < Len(name) THEN Drop(name, i) ELSE ""

\* The file the cover is copied to (lines 333-335)
CoverDestName(path_str, row) ==
  make_slug(row)
  \o (IF PathSuffix(path_str) # "" THEN PathSuffix(path_str) ELSE ".jpg")

\* fs: what the file system answers for path_str: whether it is an existing
\* regular file, and whether shutil.copyfile succeeds.
maybe_copy_cover(path_str, row, fs) ==
  IF ~fs.is_file THEN ""
  ELSE IF ~fs.copy_ok THEN ""
  ELSE BOOK_COVERS_URL_PREFIX \o "/" \o CoverDestName(path_str, row)

find_cover_isbn_first(row, isbn, fs) ==
  LET cover == strip(Or(Get(row, "cover"), ""))
      asin == extract_asin_from_identifiers(GetDefault(row, "identifiers", ""))
  IN IF cover # "" /\ maybe_copy_cover(cover, row, fs) # ""
     THEN maybe_copy_cover(cover, row, fs)
     ELSE IF isbn # "" THEN "https://covers.openlibrary.org/b/isbn/" \o isbn \o "-L.jpg"
     ELSE IF cover # "" THEN cover
     ELSE IF asin # "" THEN "https://covers.openlibrary.org/b/asin/" \o asin \o "-L.jpg"
     ELSE ""

find_cover(row, isbn, fs) ==
  LET cover == strip(Or(Get(row, "cover"), ""))
      asin == extract_asin_from_identifiers(GetDefault(row, "identifiers", ""))
  IN IF cover # ""
     THEN (IF maybe_copy_cover(cover, row, fs) # ""
           THEN maybe_copy_cover(cover, row, fs)
           ELSE cover)
     ELSE IF isbn # "" THEN "https://covers.openlibrary.org/b/isbn/" \o isbn \o "-L.jpg"
     ELSE IF asin # "" THEN "https://covers.openlibrary.org/b/asin/" \o asin \o "-L.jpg"
     ELSE ""

\* The file system after find_cover: BOOK_COVERS_DIR is created once the
\* source is seen to be a file (line 331), the copy lands when it succeeds.
CoversDirAfter(row, fs, dir) ==
  dir \/ (strip(Or(Get(row, "cover"), "")) # "" /\ fs.is_file)

CoversAfter(row, fs, files) ==
  LET cover == strip(Or(Get(row, "cover"), "")) IN
  IF cover # "" /\ fs.is_file /\ fs.copy_ok
  THEN [n \in DOMAIN files \cup {CoverDestName(cover, row)} |->
          IF n = CoverDestName(cover, row) THEN cover ELSE files[n]]
  ELSE files

\* A path that is no file cannot be copied.
FileStates ==
  {[is_file |-> FALSE, copy_ok |-> FALSE], [is_file |-> TRUE, copy_ok |-> FALSE],
   [is_file |-> TRUE, copy_ok |-> TRUE]}

----------------------------------------------------------------------------
(* Specification SpecCover: find_cover applied to one row, as                *)
(* build_front_matter calls it (isbn = find_isbn(row)).  write_book calls    *)
(* make_slug(row) before build_front_matter (lines 470, 472), so find_cover  *)
(* only ever sees rows for which make_slug returned.                         *)

CoverTexts == {Absent, None, "", "  ", "covers/c.png", " c ", "http://x/y.jpeg",
               "dir.d/noext", ".hidden", "a.b/c.tar.gz"}

CoverIdentifierTexts == {Absent, "mobi-asin:B00-ABC", "isbn:0306406152,ASIN: b00x",
                         "asin:--,isbn:123"}

CoverRows ==
  {[BlankRow EXCEPT !["cover"] = c, !["isbn"] = i, !["identifiers"] = d,
                    !["uuid"] = u, !["title"] = "My Book"] :
     c \in CoverTexts, i \in {"", "9781402894626"},
     d \in CoverIdentifierTexts, u \in {"", "u-1"}}

InitCover ==
  /\ pc = "call"
  /\ arg \in CoverRows
  /\ ret = None
  /\ env = None
  /\ api_key = FALSE
  /\ ai_calls = 0
  /\ RunIdle

CallFindCover ==
  /\ pc = "call"
  /\ \E fs \in FileStates :
       /\ env' = fs
       /\ ret' = find_cover(arg, find_isbn(arg), fs)
       /\ covers_dir' = CoversDirAfter(arg, fs, covers_dir)
       /\ covers' = CoversAfter(arg, fs, covers)
  /\ pc' = "return"
  /\ UNCHANGED <<arg, api_key, ai_calls, input_exists, rows_read, cur, written,
                 count, stdout, books, books_dir, exit_status>>

NextCover == CallFindCover

SpecCover == InitCover /\ [][NextCover]_vars

SuppliedCover(row) ==
  IF Truthy(row["cover"]) THEN strip(row["cover"]) ELSE ""

IsbnCoverUrl(isbn) == "https://covers.openlibrary.org/b/isbn/" \o isbn \o "-L.jpg"
AsinCoverUrl(asin) == "https://covers.openlibrary.org/b/asin/" \o asin \o "-L.jpg"

\* The results of steps (b), (c), (d) of the chain.
UrlChain(row) ==
  IF find_isbn(row) # "" THEN IsbnCoverUrl(find_isbn(row))
  ELSE IF extract_asin_from_identifiers(GetDefault(row, "identifiers", "")) # ""
  THEN AsinCoverUrl(extract_asin_from_identifiers(GetDefault(row, "identifiers", "")))
  ELSE ""

CopiedCoverPath(row) ==
  BOOK_COVERS_URL_PREFIX \o "/" \o make_slug(row)
  \o (IF PathSuffix(SuppliedCover(row)) # ""
      THEN PathSuffix(SuppliedCover(row)) ELSE ".jpg")

\* C10 (as claimed): (a) a supplied cover that is an existing local file is
\* copied and the new relative path returned, the supplied value when the
\* copy fails; (b) else the ISBN cover URL when an ISBN is known; (c) else
\* the ASIN cover URL; (d) else empty.
C10_CoverChainAsClaimed ==
  pc = "return" =>
    IF SuppliedCover(arg) # "" /\ env.is_file
    THEN ret = (IF env.copy_ok THEN CopiedCoverPath(arg) ELSE SuppliedCover(arg))
    ELSE ret = UrlChain(arg)

\* C10 (amended): a supplied cover value always decides the result: the new
\* relative path when it is an existing local file and the copy succeeds
\* (the copy then exists under <slug><extension, .jpg when none>), the
\* supplied value itself, trimmed, in every other case (no such file, or a
\* failed copy); only without a supplied value the ISBN URL, else the ASIN
\* URL, else the empty string is returned.
C10_SuppliedCoverAlwaysWins ==
  pc = "return" =>
    LET cover == SuppliedCover(arg)
        copied == cover # "" /\ env.is_file /\ env.copy_ok
    IN /\ copied =>
            /\ ret = CopiedCoverPath(arg)
            /\ covers_dir
            /\ DOMAIN covers = {PathName(ret)}
            /\ covers[PathName(ret)] = cover
       /\ (cover # "" /\ ~copied) => (ret = cover /\ DOMAIN covers = {})
       /\ cover = "" => (ret = UrlChain(arg) /\ DOMAIN covers = {} /\ ~covers_dir)

\* C10 witness: a supplied cover that is no local file was returned as it
\* is although the row has an ISBN.
C10_Witness ==
  /\ pc = "return"
  /\ arg["cover"] = "http://x/y.jpeg"
  /\ ~env.is_file
  /\ find_isbn(arg) # ""
  /\ ret = "http://x/y.jpeg"

----------------------------------------------------------------------------
(* quote, render_list, build_front_matter, write_book *)

\* value.replace('"', r'\\\"'): each double quote becomes three backslashes
\* and a double quote
RECURSIVE EscapeQuotes(_)
EscapeQuotes(value) ==
  IF value = "" THEN ""
  ELSE (IF Char(value, 1) = "\"" THEN "\\\\\\\"" ELSE Char(value, 1))
       \o EscapeQuotes(Tail(value))

quote(value) == "\"" \o EscapeQuotes(value) \o "\""

RECURSIVE QuoteAll(_)
QuoteAll(items) ==
  IF items = <<>> THEN <<>> ELSE <<quote(items[1])>> \o QuoteAll(Tail(items))

render_list(items) ==
  IF items = <<>> THEN "[]" ELSE "[" \o Join(", ", QuoteAll(items)) \o "]"

\* The header lines; a line whose value is empty is left out (line 371).
build_front_matter(row, key, outcome, fs) ==
  LET title == Or(Get(row, "title"), "Untitled")
      authors == Or(Get(row, "authors"), Or(Get(row, "author"), ""))
      isbn == find_isbn(row)
      cover == find_cover(row, isbn, fs)
      year == parse_year(GetDefault(row, "pubdate", ""))
      stars == strip(Or(Get(row, "rating"), ""))
      tags == to_list(GetDefault(row, "tags", ""))
      languages == to_list(GetDefault(row, "languages", ""))
      category == detect_category(title, tags, GetDefault(row, "comments", ""),
                                  key, outcome)
      lines == <<"---",
                 "layout: book-review",
                 "title: " \o quote(title),
                 IF authors # "" THEN "author: " \o quote(authors) ELSE "",
                 IF isbn # "" THEN "isbn: " \o isbn ELSE "",
                 IF cover # "" THEN "cover: " \o cover ELSE "",
                 IF year # "" THEN "released: " \o year ELSE "",
                 IF stars # "" THEN "stars: " \o stars ELSE "",
                 IF languages # <<>> THEN "languages: " \o render_list(languages) ELSE "",
                 IF tags # <<>> THEN "tags: " \o render_list(tags) ELSE "",
                 IF category # "" THEN "categories: " \o render_list(<<category>>) ELSE "",
                 "status: Planned",
                 "---">>
  IN SelectSeq(lines, LAMBDA line : line # "")

BOOKS_DIR == "_books"

BookPath(row) == BOOKS_DIR \o "/" \o make_slug(row) \o ".md"

\* What write_book writes to the file (lines 472-480)
BookText(row, key, outcome, fs) ==
  Join("\n", build_front_matter(row, key, outcome, fs))
  \o "\n\n" \o strip(Or(Get(row, "comments"), "")) \o "\n"

\* path.open("a"): the text is added to what the file holds
WriteFileAppending(files, path, text) ==
  [p \in DOMAIN files \cup {path} |->
     IF p = path THEN (IF path \in DOMAIN files THEN files[path] ELSE "") \o text
     ELSE files[p]]

\* path.open("w") and the writes: the file holds exactly the text
WriteFile(files, path, text) ==
  [p \in DOMAIN files \cup {path} |-> IF p = path THEN text ELSE files[p]]

\* count += 1 skipped
CountNotAdvanced(n) == n

\* count += 1
CountAfterRow(n) == n + 1

----------------------------------------------------------------------------
(* Specification Spec: a run of main over a CSV of at most MaxRows rows.    *)
(* The reader yields the rows one by one; uuid values name no directory.    *)

MaxRows == 2

MainRows ==
  {[BlankRow EXCEPT !["uuid"] = u, !["id"] = "", !["title"] = t,
                    !["comments"] = " Body. ", !["tags"] = "web"] :
     u \in {"", "u-1"}, t \in {None, "Hello, World!", "hello world"}}
  \cup {[BlankRow EXCEPT !["id"] = "7", !["title"] = "Say \"hi\"",
                         !["authors"] = "A. Writer", !["isbn"] = "080442957X",
                         !["pubdate"] = "2020-1-2", !["rating"] = " 4 ",
                         !["languages"] = "eng, fra", !["comments"] = None,
                         !["cover"] = "c.png"]}

\* Classifier outcomes of the run, two of AiOutcomes.
RunAiOutcomes ==
  {[kind |-> "timeout", content |-> ""], [kind |-> "reply", content |-> "Fiction"]}

\* The answers of the environment that the row's processing reads.
RowOutcomes(row) == IF api_key THEN RunAiOutcomes ELSE {NoCall}

RowFileStates(row) ==
  IF strip(Or(Get(row, "cover"), "")) # "" THEN FileStates
  ELSE {[is_file |-> FALSE, copy_ok |-> FALSE]}

Init ==
  /\ pc = "start"
  /\ arg = None
  /\ ret = None
  /\ env = None
  /\ api_key \in BOOLEAN
  /\ ai_calls = 0
  /\ input_exists \in BOOLEAN
  /\ rows_read = <<>>
  /\ cur = None
  /\ written = <<>>
  /\ count = 0
  /\ stdout = <<>>
  /\ books = <<>>
  /\ books_dir = FALSE
  /\ covers = <<>>
  /\ covers_dir = FALSE
  /\ exit_status = ""

\* lines 486-488: raise SystemExit("CSV not found: ...") when the path is missing
CheckInput ==
  /\ pc = "start"
  /\ IF input_exists
     THEN pc' = "loop" /\ UNCHANGED exit_status
     ELSE pc' = "exit" /\ exit_status' = "SystemExit: CSV not found"
  /\ UNCHANGED <<arg, ret, env, input_exists, api_key, rows_read, cur, written,
                 count, stdout, books, books_dir, covers, covers_dir, ai_calls>>

\* lines 493-494, 468-482: the reader yields a row and write_book returns
WriteBook ==
  /\ pc = "loop"
  /\ Len(rows_read) < MaxRows
  /\ \E row \in MainRows :
       /\ make_slug(row) # AttributeError
       /\ \E outcome \in RowOutcomes(row), fs \in RowFileStates(row) :
            LET text == BookText(row, api_key, outcome, fs) IN
            /\ books' = WriteFile(books, BookPath(row), text)
            /\ written' = Append(written,
                                 [row |-> row, path |-> BookPath(row), text |-> text,
                                  outcome |-> outcome, fs |-> fs])
            /\ covers_dir' = CoversDirAfter(row, fs, covers_dir)
            /\ covers' = CoversAfter(row, fs, covers)
       /\ rows_read' = Append(rows_read, row)
       /\ cur' = row
  /\ books_dir' = TRUE
  /\ ai_calls' = IF api_key THEN ai_calls + 1 ELSE ai_calls
  /\ pc' = "count"
  /\ UNCHANGED <<arg, ret, env, input_exists, api_key, count, stdout, exit_status>>

\* lines 469-470, 379, 207: the reader yields a row whose title is None and
\* whose uuid and id are empty; make_slug raises after BOOKS_DIR is created,
\* nothing catches it and the process ends with a traceback.
WriteBookRaises ==
  /\ pc = "loop"
  /\ Len(rows_read) < MaxRows
  /\ \E row \in MainRows :
       /\ make_slug(row) = AttributeError
       /\ rows_read' = Append(rows_read, row)
       /\ cur' = row
  /\ books_dir' = TRUE
  /\ exit_status' = AttributeError
  /\ pc' = "exit"
  /\ UNCHANGED <<arg, ret, env, input_exists, api_key, written, count, stdout,
                 books, covers, covers_dir, ai_calls>>

\* line 495
Count ==
  /\ pc = "count"
  /\ count' = CountAfterRow(count)
  /\ pc' = "print"
  /\ UNCHANGED <<arg, ret, env, input_exists, api_key, rows_read, cur, written,
                 stdout, books, books_dir, covers, covers_dir, exit_status,
                 ai_calls>>

\* line 496
PrintWrote ==
  /\ pc = "print"
  /\ stdout' = Append(stdout, "Wrote " \o written[Len(written)].path)
  /\ pc' = "loop"
  /\ UNCHANGED <<arg, ret, env, input_exists, api_key, rows_read, cur, written,
                 count, books, books_dir, covers, covers_dir, exit_status,
                 ai_calls>>

\* line 498: the reader is exhausted
PrintSummary ==
  /\ pc = "loop"
  /\ stdout' = Append(stdout, "Imported " \o IntToStr(count) \o " books into "
                              \o BOOKS_DIR \o "/")
  /\ exit_status' = "0"
  /\ pc' = "done"
  /\ UNCHANGED <<arg, ret, env, input_exists, api_key, rows_read, cur, written,
                 count, books, books_dir, covers, covers_dir, ai_calls>>

Next == CheckInput \/ WriteBook \/ WriteBookRaises \/ Count \/ PrintWrote
        \/ PrintSummary

Spec == Init /\ [][Next]_vars

----------------------------------------------------------------------------
(* Claims about the run *)

WrittenPaths == {written[i].path : i \in 1..Len(written)}

LastWriteOf(path) ==
  CHOOSE i \in 1..Len(written) :
    /\ written[i].path = path
    /\ \A j \in (i + 1)..Len(written) : written[j].path # path

\* C5: the output directory holds exactly one document per distinct slug of
\* the rows written so far, stored at <slug>.md, and it is the rendering of
\* the last written row with that slug: a write replaces the earlier
\* document of its slug and leaves the others as they were.
C5_LastRowWinsPerSlug ==
  /\ DOMAIN books = WrittenPaths
  /\ Cardinality(DOMAIN books)
       = Cardinality({make_slug(written[i].row) : i \in 1..Len(written)})
  /\ \A i \in 1..Len(written) :
       written[i].path = "_books/" \o make_slug(written[i].row) \o ".md"
  /\ \A p \in DOMAIN books :
       LET w == written[LastWriteOf(p)] IN
       books[p] = BookText(w.row, api_key, w.outcome, w.fs)

\* C5 witness: two rows with one slug and different renderings were
\* written; the one document holds the second.
C5_Witness ==
  /\ Len(written) = 2
  /\ written[1].path = written[2].path
  /\ written[1].text # written[2].text
  /\ DOMAIN books = {written[2].path}
  /\ books[written[2].path] = written[2].text

WroteLines == SelectSeq(stdout, LAMBDA line : StartsWithAt(line, 1, "Wrote "))

\* C6: rows are written one at a time in input order; the counter is the
\* number of rows written, behind by one only between a row's write and its
\* increment; one "Wrote <path>" line is printed per counted row, behind by
\* one only between the increment and the print; the summary reports the
\* number of rows of the CSV.
C6_CounterCountsWrittenRows ==
  /\ Len(written) = count + (IF pc = "count" THEN 1 ELSE 0)
  /\ Len(WroteLines) = count - (IF pc = "print" THEN 1 ELSE 0)
  /\ \A i \in 1..Len(WroteLines) : WroteLines[i] = "Wrote " \o written[i].path
  /\ \A i \in 1..Len(written) : written[i].row = rows_read[i]
  /\ pc = "done" =>
       /\ count = Len(rows_read)
       /\ stdout[Len(stdout)]
            = "Imported " \o IntToStr(Len(rows_read)) \o " books into _books/"

\* C6 witness: a two-row CSV was imported and the summary says 2.
C6_Witness ==
  /\ pc = "done"
  /\ Len(rows_read) = 2
  /\ Len(WroteLines) = 2
  /\ stdout[Len(stdout)] = "Imported 2 books into _books/"

\* C7 (as claimed): the run aborts only on the input-file check, before any
\* directory or document is created; with the input present no row aborts
\* it: every row the reader yields is written, and the run ends with its
\* summary line.
C7_OnlyStartupAbort ==
  /\ (~input_exists /\ pc # "start") =>
       /\ pc = "exit"
       /\ exit_status = "SystemExit: CSV not found"
       /\ ~books_dir /\ ~covers_dir
       /\ DOMAIN books = {} /\ stdout = <<>>
  /\ input_exists =>
       /\ exit_status \in {"", "0"}
       /\ pc \in {"loop", "done"} => Len(written) = Len(rows_read)
       /\ exit_status = "0" <=> pc = "done"

====
